---- MODULE Spec2Model ----
(***************************************************************************)
(* Model of static/script.js: the chat widget's controller.                *)
(*                                                                         *)
(* The browser runs one handler at a time to completion, so each action    *)
(* below is one run of a handler or of the continuation of an await: a     *)
(* click or an Enter key press (sendMessage up to its first await), the    *)
(* settlement of fetch, the settlement of res.json(), and the two          *)
(* setInterval callbacks.  Each handler is a function from the page state  *)
(* (the record St) to the page state, built from the statements of the     *)
(* source in their order.                                                  *)
(*                                                                         *)
(* A string is a sequence of characters; a class name is the sequence of   *)
(* its space-separated tokens.                                             *)
(***************************************************************************)
EXTENDS Integers, Sequences, FiniteSets, TLC

\* Bounds of the model.
MaxCycles == 2      \* sendMessage invocations that get past the empty check
MaxTicks == 5       \* firings of one typing indicator's interval timer
MaxLen == 4         \* length of the texts typeText is called with on its own

VARIABLES
    inputValue,     \* input.value
    disabled,       \* sendBtn.disabled
    btnColor,       \* sendBtn.style.backgroundColor
    chatBox,        \* the children of chatBox, in document order
    cycles,         \* one record per sendMessage invocation past line 49: its locals
    intervals,      \* the browser's active interval timers: id -> the callback's counter i
    earlyReturn     \* the last handler run was a sendMessage that returned at line 49

vars == <<inputValue, disabled, btnColor, chatBox, cycles, intervals, earlyReturn>>

--------------------------------------------------------------------------
\* Strings

WS == {" ", "\t"}

RECURSIVE trimStart(_)
trimStart(s) == IF s # <<>> /\ Head(s) \in WS THEN trimStart(Tail(s)) ELSE s

RECURSIVE trimEnd(_)
trimEnd(s) ==
    IF s # <<>> /\ s[Len(s)] \in WS THEN trimEnd(SubSeq(s, 1, Len(s) - 1)) ELSE s

\* String.prototype.trim
trim(s) == trimEnd(trimStart(s))

\* text[i] in the place of text.charAt(i): undefined past the end
charAt_index(s, i) == IF i < Len(s) THEN <<s[i + 1]>> ELSE <<"undefined">>

\* String.prototype.charAt: the empty string past the end (i counts from 0)
charAt(s, i) == IF i < Len(s) THEN <<s[i + 1]>> ELSE <<>>

\* ".".repeat(n)
repeat(ch, n) == [k \in 1..n |-> ch]

\* What the user can have typed into the input.
Inputs == { <<>>, <<" ">>, <<" ", "a", " ", "b", "\t">> }

--------------------------------------------------------------------------
\* JSON values of the response body, as res.json() yields them

Undefined == [t |-> "undefined", s |-> <<>>, n |-> 0]
Str(s) == [t |-> "string", s |-> s, n |-> 0]
Num(n) == [t |-> "number", s |-> <<>>, n |-> n]

\* JavaScript truthiness
Truthy(v) ==
    \/ v.t = "string" /\ v.s # <<>>
    \/ v.t = "number" /\ v.n # 0

\* a ?? b in the place of a || b
Or_nullish(a, b) == IF a.t # "undefined" THEN a ELSE b

\* a || b
Or(a, b) == IF Truthy(a) THEN a ELSE b

Null == [t |-> "null", answer |-> Undefined, response |-> Undefined, source |-> Undefined]
Obj(a, r, s) == [t |-> "object", answer |-> a, response |-> r, source |-> s]
NoData == [t |-> "none", answer |-> Undefined, response |-> Undefined, source |-> Undefined]

\* The bodies a server can send that parse as JSON: {answer}, {response}, {},
\* all three fields, an empty answer beside a response, a number for an answer,
\* and the JSON text null.
Objects ==
    { Obj(Str(<<"H", "i">>), Undefined, Undefined),
      Obj(Undefined, Str(<<"Y", "o">>), Undefined),
      Obj(Undefined, Undefined, Undefined),
      Obj(Str(<<"H", "i">>), Str(<<"Y", "o">>), Str(<<"S">>)),
      Obj(Str(<<>>), Str(<<"Y", "o">>), Undefined),
      Obj(Num(5), Undefined, Undefined) }

JsonBodies == Objects \cup {Null}

\* res.status, and the JSON bodies that come with it: an error status comes
\* with an object that has none of the three fields, such as {"detail": ...}
Statuses == {200, 500}
BodiesFor(status) ==
    IF status = 200 THEN JsonBodies ELSE {Obj(Undefined, Undefined, Undefined)}

NoReply == <<"N", "o", " ", "r", "e", "p", "l", "y">>

\* The message of the error a rejected fetch carries.
NetErrors == { <<"timeout">> }
\* The message of the SyntaxError res.json() rejects with on a non-JSON body.
SyntaxErrorMessage == <<"Unexpected token < in JSON at position 0">>
\* The message of the TypeError of reading a property of null.
NullErrorMessage == <<"Cannot read properties of null (reading 'answer')">>

\* The warning sign U+26A0 U+FE0F and the text that follows it.
ErrorPrefix == <<"U+26A0 U+FE0F", " Error connecting to server: ">>

--------------------------------------------------------------------------
\* The page state and its elements

St == [ input |-> inputValue, disabled |-> disabled, btnColor |-> btnColor,
        chatBox |-> chatBox, cycles |-> cycles, intervals |-> intervals,
        earlyReturn |-> earlyReturn ]

\* A child of chatBox: the cycle that created it, its class, its own text and
\* its child elements.
Elem(c, cls, text, kids) == [cyc |-> c, cls |-> cls, text |-> text, kids |-> kids]
Kid(tag, text) == [tag |-> tag, text |-> text]

TypingId(c) == [kind |-> "typing", cyc |-> c]
TypeId(c) == [kind |-> "type", cyc |-> c]

IsTyping(e) == e.cls = <<"message", "bot", "typing">>
IsBot(e) == e.cls = <<"message", "bot">>
IsUser(e) == e.cls = <<"message", "user">>

\* The locals of one sendMessage invocation; effects lists the statements it
\* has executed, in execution order.
NewCycle(text) ==
    [ pc |-> "start", text |-> text, body |-> [message |-> <<>>], status |-> 0, data |-> NoData,
      replyText |-> Undefined, err |-> <<>>, effects |-> <<>> ]

Did(s, c, what) == [s EXCEPT !.cycles[c].effects = Append(@, what)]

\* setInterval / clearInterval
setInterval(s, id) == [s EXCEPT !.intervals = (id :> 0) @@ @]
clearInterval(s, id) ==
    [s EXCEPT !.intervals = [k \in (DOMAIN @) \ {id} |-> @[k]]]

--------------------------------------------------------------------------
\* script.js

addMessage(s, c, text, cls) ==
    Did([s EXCEPT !.chatBox = Append(@, Elem(c, <<"message", cls>>, text, <<>>))],
        c, IF cls = "user" THEN "addMessage user" ELSE "addMessage bot")

addTypingIndicator(s, c) ==
    LET el == Elem(c, <<"message", "bot", "typing">>, <<"Bot is typing">>,
                   <<Kid("span", <<>>)>>)
        s1 == [s EXCEPT !.chatBox = Append(@, el)]
    IN  Did(setInterval(s1, TypingId(c)), c, "addTypingIndicator")

\* the typing indicator's callback cycling through three displays, not four
typingTick_mod3(s, c) ==
    LET i == s.intervals[TypingId(c)]
        dots == repeat(".", i % 3)
    IN  [s EXCEPT
            !.chatBox = [k \in DOMAIN @ |->
                            IF @[k].cyc = c /\ IsTyping(@[k])
                            THEN [@[k] EXCEPT !.kids = <<Kid("span", dots)>>]
                            ELSE @[k]],
            !.intervals[TypingId(c)] = i + 1]

\* The callback of addTypingIndicator's timer: dots.innerText = ".".repeat(i%4); i++
typingTick(s, c) ==
    LET i == s.intervals[TypingId(c)]
        dots == repeat(".", i % 4)
    IN  [s EXCEPT
            !.chatBox = [k \in DOMAIN @ |->
                            IF @[k].cyc = c /\ IsTyping(@[k])
                            THEN [@[k] EXCEPT !.kids = <<Kid("span", dots)>>]
                            ELSE @[k]],
            !.intervals[TypingId(c)] = i + 1]

\* typing.el.remove() left out
removeTyping_none(s, c) == Did(s, c, "remove")

\* typing.el.remove()
removeTyping(s, c) ==
    Did([s EXCEPT !.chatBox = SelectSeq(@, LAMBDA e : ~(e.cyc = c /\ IsTyping(e)))],
        c, "remove")

\* The bot element of cycle c in chatBox (botEl)
BotIndex(s, c) == CHOOSE k \in DOMAIN s.chatBox :
                      s.chatBox[k].cyc = c /\ IsBot(s.chatBox[k]) /\ s.chatBox[k].kids = <<>>

\* typeText up to the promise it returns: clears the element, starts the timer
typeText(s, c) ==
    LET k == BotIndex(s, c)
        s1 == [s EXCEPT !.chatBox[k].text = <<>>]
    IN  Did(setInterval(s1, TypeId(c)), c, "typeText")

\* lines 79-83 and 92-93: the source note, then the button is enabled again
afterReveal(s, c) ==
    LET k == BotIndex(s, c)
        src == s.cycles[c].data.source
        note == IF Truthy(src) THEN <<" ", "(">> \o src.s \o <<")">> ELSE <<>>
        s1 == Did([s EXCEPT !.chatBox[k].kids = <<Kid("br", <<>>), Kid("small", note)>>],
                  c, "note")
    IN  Did([s1 EXCEPT !.disabled = FALSE, !.btnColor = "", !.cycles[c].pc = "done"],
            c, "enable")

\* typeText's callback with i > text.length in the place of i >= text.length
typeTick_lateStop(s, c) ==
    LET text == s.cycles[c].replyText
        i == s.intervals[TypeId(c)]
        k == BotIndex(s, c)
    IN  IF text.t # "string"
        THEN s
        ELSE LET s1 == [s EXCEPT !.chatBox[k].text = @ \o charAt(text.s, i),
                                 !.intervals[TypeId(c)] = i + 1]
             IN  IF i + 1 > Len(text.s)
                 THEN afterReveal(clearInterval(s1, TypeId(c)), c)
                 ELSE s1

\* typeText's callback resolving one character early
typeTick_earlyResolve(s, c) ==
    LET text == s.cycles[c].replyText
        i == s.intervals[TypeId(c)]
        k == BotIndex(s, c)
    IN  IF text.t # "string"
        THEN s
        ELSE LET s1 == [s EXCEPT !.chatBox[k].text = @ \o charAt(text.s, i),
                                 !.intervals[TypeId(c)] = i + 1]
             IN  IF i + 1 >= Len(text.s) - 1
                 THEN afterReveal(clearInterval(s1, TypeId(c)), c)
                 ELSE s1

\* The callback of typeText's timer, and what its resolve() continues with
typeTick(s, c) ==
    LET text == s.cycles[c].replyText
        i == s.intervals[TypeId(c)]
        k == BotIndex(s, c)
    IN  IF text.t # "string"
        THEN s      \* text.charAt is not a function: the callback throws, nothing changes
        ELSE LET s1 == [s EXCEPT !.chatBox[k].text = @ \o charAt(text.s, i),
                                 !.intervals[TypeId(c)] = i + 1]
             IN  IF i + 1 >= Len(text.s)
                 THEN afterReveal(clearInterval(s1, TypeId(c)), c)
                 ELSE s1

\* the catch block lacking line 86, its clearInterval
catch_noClear(s, c, message) ==
    LET s2 == removeTyping(s, c)
        s3 == addMessage([s2 EXCEPT !.cycles[c].err = message], c,
                         ErrorPrefix \o message, "bot")
    IN  Did([s3 EXCEPT !.disabled = FALSE, !.btnColor = "", !.cycles[c].pc = "done"],
            c, "enable")

\* lines 85-93: the catch block, then the button is enabled again
catch(s, c, message) ==
    LET s1 == Did(clearInterval(s, TypingId(c)), c, "clearInterval")
        s2 == removeTyping(s1, c)
        s3 == addMessage([s2 EXCEPT !.cycles[c].err = message], c,
                         ErrorPrefix \o message, "bot")
    IN  Did([s3 EXCEPT !.disabled = FALSE, !.btnColor = "", !.cycles[c].pc = "done"],
            c, "enable")

\* sendMessage issuing its request before it shows the user's message
sendAccepted_fetchFirst(s, text) ==
    LET c == Len(s.cycles) + 1
        s0 == [s EXCEPT !.cycles = Append(@, NewCycle(text)), !.earlyReturn = FALSE]
        s1 == Did([s0 EXCEPT !.disabled = TRUE, !.btnColor = "#ccc"], c, "disable")
        s2 == Did([s1 EXCEPT !.cycles[c].pc = "fetch",
                             !.cycles[c].body = [message |-> text]], c, "fetch")
        s3 == addMessage(s2, c, text, "user")
        s4 == Did([s3 EXCEPT !.input = <<>>], c, "clearInput")
    IN  addTypingIndicator(s4, c)

\* sendMessage starting the typing indicator before it shows the user's message
sendAccepted_typingFirst(s, text) ==
    LET c == Len(s.cycles) + 1
        s0 == [s EXCEPT !.cycles = Append(@, NewCycle(text)), !.earlyReturn = FALSE]
        s1 == Did([s0 EXCEPT !.disabled = TRUE, !.btnColor = "#ccc"], c, "disable")
        s2 == addTypingIndicator(s1, c)
        s3 == addMessage(s2, c, text, "user")
        s4 == Did([s3 EXCEPT !.input = <<>>], c, "clearInput")
    IN  Did([s4 EXCEPT !.cycles[c].pc = "fetch", !.cycles[c].body = [message |-> text]],
            c, "fetch")

\* lines 51-65: sendMessage past the empty check, up to its first await
sendAccepted(s, text) ==
    LET c == Len(s.cycles) + 1
        s0 == [s EXCEPT !.cycles = Append(@, NewCycle(text)), !.earlyReturn = FALSE]
        s1 == Did([s0 EXCEPT !.disabled = TRUE, !.btnColor = "#ccc"], c, "disable")
        s2 == addMessage(s1, c, text, "user")
        s3 == Did([s2 EXCEPT !.input = <<>>], c, "clearInput")
        s4 == addTypingIndicator(s3, c)
    IN  Did([s4 EXCEPT !.cycles[c].pc = "fetch", !.cycles[c].body = [message |-> text]],
            c, "fetch")

\* sendMessage with line 48 lacking its trim()
sendMessage_noTrim(s) ==
    LET text == s.input
    IN  IF text = <<>> THEN [s EXCEPT !.earlyReturn = TRUE] ELSE sendAccepted(s, text)

\* lines 47-65: sendMessage up to its first await
sendMessage(s) ==
    LET text == trim(s.input)
    IN  IF text = <<>> THEN [s EXCEPT !.earlyReturn = TRUE] ELSE sendAccepted(s, text)

\* line 8: the click listener; a disabled button dispatches no click event
click(s) == IF s.disabled THEN s ELSE sendMessage(s)

\* line 9: the keydown listener, for the Enter key
keydownEnter(s) == sendMessage(s)

\* line 61 resumes with the Response: res.json() is called and awaited
fetchResolved(s, c, status) ==
    Did([s EXCEPT !.cycles[c].pc = "json", !.cycles[c].status = status], c, "json")

\* line 61 resumes with a rejection
fetchRejected(s, c, message) == catch(s, c, message)

\* lines 66-76: res.json() resolved with data
jsonResolved(s, c, data) ==
    LET s1 == Did(clearInterval([s EXCEPT !.cycles[c].data = data], TypingId(c)),
                  c, "clearInterval")
        s2 == removeTyping(s1, c)
        s3 == Did([s2 EXCEPT !.chatBox = Append(@, Elem(c, <<"message", "bot">>, <<>>, <<>>))],
                  c, "appendChild")
    IN  IF data.t = "null"
        THEN catch(s3, c, NullErrorMessage)
        ELSE LET replyText == Or(Or(data.answer, data.response), Str(NoReply))
             IN  typeText([s3 EXCEPT !.cycles[c].replyText = replyText,
                                     !.cycles[c].pc = "reveal"], c)

\* line 66 resumes with a rejection: the body is not JSON
jsonRejected(s, c) == catch(s, c, SyntaxErrorMessage)

--------------------------------------------------------------------------
\* The state machine

Apply(s) ==
    /\ inputValue' = s.input
    /\ disabled' = s.disabled
    /\ btnColor' = s.btnColor
    /\ chatBox' = s.chatBox
    /\ cycles' = s.cycles
    /\ intervals' = s.intervals
    /\ earlyReturn' = s.earlyReturn

Handled(s) == Apply([s EXCEPT !.earlyReturn = FALSE])

Init ==
    /\ inputValue = <<>>
    /\ disabled = FALSE
    /\ btnColor = ""
    /\ chatBox = <<>>
    /\ cycles = <<>>
    /\ intervals = <<>>
    /\ earlyReturn = FALSE

\* A sendMessage invocation the model has room for
Room == trim(inputValue) = <<>> \/ Len(cycles) < MaxCycles

\* The user edits the input
SetInput(v) ==
    /\ v # inputValue
    /\ Handled([St EXCEPT !.input = v])

\* line 8: a click on the send button; a disabled button gets no click event
Click ==
    /\ ~disabled
    /\ Room
    /\ Apply(click(St))

\* line 9: Enter pressed in the input
Enter ==
    /\ Room
    /\ Apply(keydownEnter(St))

FetchResolve(c, status) ==
    /\ cycles[c].pc = "fetch"
    /\ Handled(fetchResolved(St, c, status))

FetchReject(c, message) ==
    /\ cycles[c].pc = "fetch"
    /\ Handled(fetchRejected(St, c, message))

JsonResolve(c, data) ==
    /\ cycles[c].pc = "json"
    /\ Handled(jsonResolved(St, c, data))

JsonReject(c) ==
    /\ cycles[c].pc = "json"
    /\ Handled(jsonRejected(St, c))

TypingTick(c) ==
    /\ TypingId(c) \in DOMAIN intervals
    /\ intervals[TypingId(c)] < MaxTicks
    /\ Handled(typingTick(St, c))

TypeTick(c) ==
    /\ TypeId(c) \in DOMAIN intervals
    /\ Handled(typeTick(St, c))

Next ==
    \/ \E v \in Inputs : SetInput(v)
    \/ Click
    \/ Enter
    \/ \E c \in DOMAIN cycles : \E status \in Statuses : FetchResolve(c, status)
    \/ \E c \in DOMAIN cycles : \E m \in NetErrors : FetchReject(c, m)
    \/ \E c \in DOMAIN cycles : \E data \in BodiesFor(cycles[c].status) : JsonResolve(c, data)
    \/ \E c \in DOMAIN cycles : JsonReject(c)
    \/ \E c \in DOMAIN cycles : TypingTick(c)
    \/ \E c \in DOMAIN cycles : TypeTick(c)

Spec == Init /\ [][Next]_vars

\* Timers keep firing: an active reveal timer is eventually run
FairSpec == Spec /\ \A c \in 1..MaxCycles : WF_vars(TypeTick(c))

--------------------------------------------------------------------------
\* typeText on its own: line 76 calls it with any text, the empty one
\* included, on an element that may already hold text

Texts == UNION { [1..n -> {"a", "b"}] : n \in 0..MaxLen }

TypeInit ==
    \E text \in Texts : \E old \in { <<>>, <<"x">> } :
        /\ inputValue = <<>>
        /\ disabled = TRUE
        /\ btnColor = "#ccc"
        /\ chatBox = << Elem(1, <<"message", "user">>, <<"a">>, <<>>),
                        Elem(1, <<"message", "bot">>, old, <<>>) >>
        /\ cycles = << [NewCycle(<<"a">>) EXCEPT !.pc = "call",
                                                 !.status = 200,
                                                 !.data = Obj(Str(text), Undefined, Undefined),
                                                 !.replyText = Str(text)] >>
        /\ intervals = <<>>
        /\ earlyReturn = FALSE

\* line 76: typeText(botEl, replyText, 14) is called and awaited
TypeCall ==
    /\ cycles[1].pc = "call"
    /\ Handled(typeText([St EXCEPT !.cycles[1].pc = "reveal"], 1))

TypeNext ==
    \/ TypeCall
    \/ TypeTick(1)

TypeSpec == TypeInit /\ [][TypeNext]_vars

--------------------------------------------------------------------------
\* Vocabulary of the properties

Started == DOMAIN cycles
InFlight(c) == cycles[c].pc = "fetch"
InProgress(c) == cycles[c].pc # "done"
Failed(c) == cycles[c].err # <<>>

IsBlank(v) == \A k \in DOMAIN v : v[k] \in WS

\* t is v without its leading and trailing whitespace
IsTrimOf(t, v) ==
    \E i \in 1..Len(v) + 1 : \E j \in 0..Len(v) :
        /\ t = SubSeq(v, i, j)
        /\ \A k \in DOMAIN v : (k < i \/ k > j) => v[k] \in WS
        /\ t # <<>> => (t[1] \notin WS /\ t[Len(t)] \notin WS)

\* The page, leaving out which handler ran last
Page(s) == [s EXCEPT !.earlyReturn = FALSE]

Entries(box, c, Is(_)) == SelectSeq(box, LAMBDA e : e.cyc = c /\ Is(e))

\* every occurrence of b in eff comes after an occurrence of a
Precedes(eff, a, b) ==
    \A j \in DOMAIN eff : eff[j] = b => \E i \in 1..(j - 1) : eff[i] = a

Count(eff, a) == Cardinality({k \in DOMAIN eff : eff[k] = a})

--------------------------------------------------------------------------
\* C1: at most one outbound request is in flight (issued by sendMessage and
\* not yet resolved or rejected) in every reachable state.
C1_AtMostOneInFlight == Cardinality({c \in Started : InFlight(c)}) <= 1

\* C2: the send button is disabled in exactly the states where some
\* sendMessage cycle has started and not yet finished.
C2_DisabledIffInProgress == disabled <=> (\E c \in Started : InProgress(c))

\* C3: sendMessage invoked with an empty or whitespace-only input changes
\* nothing: the log, the requests, the timers, the button and the input stay
\* as they were.
C3_BlankIsNoOp == IsBlank(inputValue) => Page(sendMessage(St)) = Page(St)

\* C3 happens: a whitespace-only input was submitted while a cycle was running
C3_Witness ==
    /\ earlyReturn
    /\ inputValue # <<>>
    /\ IsBlank(inputValue)
    /\ \E c \in Started : InProgress(c)

\* C4: a sendMessage invocation whose trimmed input is non-empty appends
\* exactly one user-role message carrying the trimmed text, and appends it
\* before it issues its request.
C4_UserMessageBeforeRequest ==
    /\ \A c \in Started :
        LET mine == Entries(chatBox, c, IsUser)
            eff == cycles[c].effects
        IN  /\ Len(mine) = 1
            /\ mine[1].text = cycles[c].body.message
            /\ Count(eff, "addMessage user") = 1
            /\ Count(eff, "fetch") = 1
            /\ Precedes(eff, "addMessage user", "fetch")
    /\ ~IsBlank(inputValue) =>
        LET s == sendMessage(St)
            c == Len(cycles) + 1
            mine == Entries(s.chatBox, c, IsUser)
        IN  /\ Len(mine) = 1
            /\ IsTrimOf(mine[1].text, inputValue)
            /\ Len(SelectSeq(s.chatBox, IsUser)) = Len(SelectSeq(chatBox, IsUser)) + 1
            /\ s.cycles[c].body.message = mine[1].text
            /\ s.cycles[c].pc = "fetch"

\* C4 happens: a request is in flight while an earlier cycle's entries are in
\* the log
C4_Witness ==
    \E c \in Started :
        /\ c > 1
        /\ InFlight(c)
        /\ Entries(chatBox, c, IsUser) # <<>>

IsBotRole(e) == IsBot(e) \/ IsTyping(e)

\* C5: a cycle that ended on the failure path has added exactly one bot-role
\* entry, the fixed marker followed by the error's message, and no other
\* bot-role entry of that cycle remains in the log.
C5_OneErrorEntry ==
    \A c \in Started :
        (cycles[c].pc = "done" /\ Failed(c)) =>
            LET mine == Entries(chatBox, c, IsBotRole)
            IN  /\ Len(mine) = 1
                /\ mine[1].text = ErrorPrefix \o cycles[c].err

\* The exchange of cycle c is over, and ended in a network failure, a body
\* that is not JSON, or a status outside 200..299
BadExchange(c) ==
    /\ cycles[c].pc \in {"reveal", "done"}
    /\ \/ cycles[c].status \notin 200..299
       \/ cycles[c].data.t = "none"

\* C6: a network failure, a non-JSON body and a non-2xx status all take the
\* failure path; none is rendered as an ordinary bot reply.
C6_BadExchangeFails ==
    \A c \in Started :
        BadExchange(c) => (Failed(c) /\ Count(cycles[c].effects, "typeText") = 0)

\* The text of the bot entry of cycle c
RevealedText(c) == Entries(chatBox, c, IsBot)[1].text

Succeeded(c) == cycles[c].pc = "done" /\ ~Failed(c) /\ cycles[c].data.t = "object"

\* C7: the revealed text is the answer field if the response has one,
\* otherwise the response field if it has one, otherwise "No reply".
C7_FirstPresentField ==
    \A c \in Started :
        Succeeded(c) =>
            LET d == cycles[c].data
            IN  RevealedText(c) = IF d.answer # Undefined THEN d.answer.s
                                  ELSE IF d.response # Undefined THEN d.response.s
                                  ELSE NoReply

NonEmptyString(v) == v.t = "string" /\ v.s # <<>>
StringOrAbsent(v) == v.t \in {"string", "undefined"}

IsPrefix(p, q) == Len(p) <= Len(q) /\ p = SubSeq(q, 1, Len(p))

\* C7, amended: for a response object whose answer and response fields are
\* strings where present, the revealed text is the answer field if it is a
\* non-empty string, otherwise the response field if it is a non-empty
\* string, otherwise "No reply"; while the reveal runs the entry holds a
\* proper prefix of that text.
C7_FirstNonEmptyField ==
    \A c \in Started :
        LET d == cycles[c].data
            want == IF NonEmptyString(d.answer) THEN d.answer.s
                    ELSE IF NonEmptyString(d.response) THEN d.response.s
                    ELSE NoReply
        IN  (d.t = "object" /\ StringOrAbsent(d.answer) /\ StringOrAbsent(d.response)) =>
                /\ Succeeded(c) => RevealedText(c) = want
                /\ cycles[c].pc = "reveal" =>
                    (IsPrefix(RevealedText(c), want) /\ RevealedText(c) # want)

\* C7 happens: a response with an empty answer beside a response field has
\* been revealed in full
C7_Witness ==
    \E c \in Started :
        /\ Succeeded(c)
        /\ cycles[c].data.answer = Str(<<>>)
        /\ cycles[c].data.response = Str(<<"Y", "o">>)
        /\ RevealedText(c) = <<"Y", "o">>

\* C8: on both paths the typing indicator's timer is cancelled and its
\* placeholder removed before the cycle's bot entry or error entry is
\* appended, and the timer of a completed cycle is not active any more.
C8_TypingStoppedFirst ==
    \A c \in Started :
        LET eff == cycles[c].effects
        IN  /\ Precedes(eff, "clearInterval", "appendChild")
            /\ Precedes(eff, "remove", "appendChild")
            /\ Precedes(eff, "clearInterval", "addMessage bot")
            /\ Precedes(eff, "remove", "addMessage bot")
            /\ Entries(chatBox, c, IsBot) # <<>> =>
                /\ TypingId(c) \notin DOMAIN intervals
                /\ Entries(chatBox, c, IsTyping) = <<>>
            /\ cycles[c].pc = "done" => TypingId(c) \notin DOMAIN intervals

\* C8 happens: one cycle has completed on the failure path and another has
\* passed to the reveal of its reply
C8_Witness ==
    /\ \E c \in Started : cycles[c].pc = "done" /\ Failed(c) /\ cycles[c].status = 0
    /\ \E c \in Started : cycles[c].pc \in {"reveal", "done"} /\ ~Failed(c)

\* C9: every cycle whose exchange has completed eventually enables the send
\* button again, given that timers keep firing.
C9_EventuallyEnabled ==
    \A c \in 1..MaxCycles :
        (c \in Started /\ cycles[c].pc = "reveal")
            ~> (c \in Started /\ cycles[c].pc = "done")

\* C10: in every state, pressing Enter in the input and clicking the send
\* button lead to the same successor state.
C10_EnterSameAsClick == Page(keydownEnter(St)) = Page(click(St))

TypingTimers == {id \in DOMAIN intervals : id.kind = "typing"}
TypeTimers == {id \in DOMAIN intervals : id.kind = "type"}

\* C11: in no reachable state are a typing indicator's timer and a reveal
\* (typeText) timer both active.
C11_NoTimerOverlap == TypingTimers = {} \/ TypeTimers = {}

\* The text of the bot entry of cycle c in the page s
RevealedIn(s, c) == Entries(s.chatBox, c, IsBot)[1].text

TypeTextCalled(c) == Count(cycles[c].effects, "typeText") = 1

\* C12: typeText on a text of length N >= 1 clears the element, holds the
\* first k characters after its k-th tick, and at the N-th tick holds the
\* full text, cancels its timer and resolves.
C12_RevealByPrefixes ==
    \A c \in Started :
        LET text == cycles[c].replyText.s
            N == Len(text)
        IN  (TypeTextCalled(c) /\ cycles[c].replyText.t = "string" /\ N >= 1) =>
                /\ cycles[c].pc \in {"reveal", "done"}
                /\ cycles[c].pc = "reveal" =>
                    /\ TypeId(c) \in DOMAIN intervals
                    /\ LET k == intervals[TypeId(c)]
                           s == typeTick(St, c)
                       IN  /\ k < N
                           /\ RevealedText(c) = SubSeq(text, 1, k)
                           /\ RevealedIn(s, c) = SubSeq(text, 1, k + 1)
                           /\ (k + 1 = N) <=> (TypeId(c) \notin DOMAIN s.intervals)
                           /\ (k + 1 = N) <=> (s.cycles[c].pc = "done")
                           /\ (k + 1 < N) => s.intervals[TypeId(c)] = k + 1
                /\ cycles[c].pc = "done" =>
                    /\ RevealedText(c) = text
                    /\ TypeId(c) \notin DOMAIN intervals

\* C12 happens: a text of three or more characters is partly revealed
C12_Witness ==
    \E c \in Started :
        /\ TypeTextCalled(c)
        /\ cycles[c].pc = "reveal"
        /\ Len(cycles[c].replyText.s) >= 3
        /\ Len(RevealedText(c)) = 2

\* C13: typeText called with an empty text completes immediately: the
\* promise is resolved without waiting for a timer tick, no timer is left
\* running and no character is appended.
C13_EmptyCompletesAtOnce ==
    \A c \in Started :
        (TypeTextCalled(c) /\ cycles[c].replyText = Str(<<>>)) =>
            /\ cycles[c].pc = "done"
            /\ TypeId(c) \notin DOMAIN intervals
            /\ RevealedText(c) = <<>>

\* C13, amended: typeText called with an empty text completes at the first
\* tick of its timer: until then the timer runs and the promise is pending,
\* that tick cancels the timer and resolves the promise, and no character
\* is ever appended.
C13_EmptyCompletesAtFirstTick ==
    \A c \in Started :
        (TypeTextCalled(c) /\ cycles[c].replyText = Str(<<>>)) =>
            /\ RevealedText(c) = <<>>
            /\ cycles[c].pc \in {"reveal", "done"}
            /\ cycles[c].pc = "reveal" =>
                /\ TypeId(c) \in DOMAIN intervals
                /\ intervals[TypeId(c)] = 0
                /\ LET s == typeTick(St, c)
                   IN  /\ s.cycles[c].pc = "done"
                       /\ TypeId(c) \notin DOMAIN s.intervals
                       /\ RevealedIn(s, c) = <<>>
            /\ cycles[c].pc = "done" => TypeId(c) \notin DOMAIN intervals

\* C13 happens: typeText was called with the empty text and has resolved
C13_Witness ==
    \E c \in Started :
        /\ TypeTextCalled(c)
        /\ cycles[c].replyText = Str(<<>>)
        /\ cycles[c].pc = "done"

\* C14: the source annotation (line break and small note) is in the bot
\* entry only once the reveal has finished: only with the entry's text equal
\* to the full reply, never with a proper prefix of it.
C14_NoteAfterReveal ==
    \A c \in Started :
        /\ Precedes(cycles[c].effects, "typeText", "note")
        /\ \A k \in DOMAIN chatBox :
            LET e == chatBox[k]
            IN  (e.cyc = c /\ IsBot(e)) =>
                    /\ cycles[c].pc = "reveal" => e.kids = <<>>
                    /\ e.kids # <<>> =>
                        /\ cycles[c].pc = "done"
                        /\ cycles[c].replyText.t = "string"
                        /\ e.text = cycles[c].replyText.s
                        /\ TypeId(c) \notin DOMAIN intervals
                        /\ Len(e.kids) = 2
                        /\ e.kids[1].tag = "br"
                        /\ e.kids[2].tag = "small"

\* C14 happens: a reply that names its source has been revealed and annotated
C14_Witness ==
    \E k \in DOMAIN chatBox :
        /\ IsBot(chatBox[k])
        /\ chatBox[k].text = <<"H", "i">>
        /\ chatBox[k].kids = <<Kid("br", <<>>), Kid("small", <<" ", "(", "S", ")">>)>>

\* C15: in the log every user message comes before the typing placeholder
\* and before the bot reply or error entry of its own cycle, and every bot
\* entry has the user message it answers before it.
C15_UserBeforeOwnBot ==
    \A j \in DOMAIN chatBox :
        IsBotRole(chatBox[j]) =>
            /\ \E i \in 1..(j - 1) :
                IsUser(chatBox[i]) /\ chatBox[i].cyc = chatBox[j].cyc
            /\ \A i \in j..Len(chatBox) :
                ~(IsUser(chatBox[i]) /\ chatBox[i].cyc = chatBox[j].cyc)

\* C15 happens: the log holds the reply or error entry of one cycle and the
\* typing placeholder of another
C15_Witness ==
    \E c \in Started : \E d \in Started :
        /\ c # d
        /\ Entries(chatBox, c, IsBot) # <<>>
        /\ Entries(chatBox, d, IsTyping) # <<>>

RECURSIVE Sum(_, _)
Sum(f, S) == IF S = {} THEN 0 ELSE LET x == CHOOSE x \in S : TRUE IN f[x] + Sum(f, S \ {x})

RequestsIssued == Sum([c \in Started |-> Count(cycles[c].effects, "fetch")], Started)

\* C16: every accepted submit issues exactly one request and, once its cycle
\* has completed, has produced exactly one bot-role entry: the requests
\* issued are as many as the user messages in the log, no request is issued
\* twice, and with all cycles completed the log holds as many bot-role
\* entries as user-role entries.
C16_OneRequestOneReply ==
    /\ RequestsIssued = Len(SelectSeq(chatBox, IsUser))
    /\ \A c \in Started :
        /\ Count(cycles[c].effects, "fetch") = 1
        /\ cycles[c].pc = "done" => Len(Entries(chatBox, c, IsBotRole)) = 1
    /\ (\A c \in Started : cycles[c].pc = "done") =>
        Len(SelectSeq(chatBox, IsBotRole)) = Len(SelectSeq(chatBox, IsUser))

\* The exchange of cycle c is still awaiting its response
Pending(c) == cycles[c].pc \in {"fetch", "json"}

\* C17: the typing placeholders in the log are as many as the cycles whose
\* exchange still awaits its response, each placeholder has exactly one
\* active interval timer, and there is no placeholder and no typing timer
\* when no exchange is pending.
C17_PlaceholderPerPendingExchange ==
    /\ Len(SelectSeq(chatBox, IsTyping)) = Cardinality({c \in Started : Pending(c)})
    /\ Cardinality(TypingTimers) = Len(SelectSeq(chatBox, IsTyping))
    /\ \A id \in TypingTimers : id.cyc \in Started
    /\ \A c \in Started :
        /\ Pending(c) <=> Len(Entries(chatBox, c, IsTyping)) = 1
        /\ Pending(c) <=> TypingId(c) \in DOMAIN intervals
        /\ ~Pending(c) => Entries(chatBox, c, IsTyping) = <<>>

\* C17 happens: one exchange is pending with its timer having fired, and
\* another cycle has completed
C17_Witness ==
    /\ Cardinality({c \in Started : Pending(c)}) = 1
    /\ \E c \in Started : cycles[c].pc = "done"
    /\ \E id \in TypingTimers : intervals[id] >= 2

\* C18: bot replies come in the order of the user messages they answer, and
\* between a user message and the bot reply or error entry of its own cycle
\* no other user message and no other cycle's bot entry is in the log.
C18_LogAlternates ==
    /\ \A i \in DOMAIN chatBox : \A k \in DOMAIN chatBox :
        (/\ i < k
         /\ IsUser(chatBox[i])
         /\ IsBot(chatBox[k])
         /\ chatBox[k].cyc = chatBox[i].cyc) =>
            \A j \in (i + 1)..(k - 1) :
                /\ ~IsUser(chatBox[j])
                /\ IsBot(chatBox[j]) => chatBox[j].cyc = chatBox[i].cyc
    /\ \A j \in DOMAIN chatBox : \A k \in DOMAIN chatBox :
        (j < k /\ IsBot(chatBox[j]) /\ IsBot(chatBox[k])) =>
            chatBox[j].cyc <= chatBox[k].cyc

\* The dots a running typing indicator of cycle c displays
Dots(c) == Len(Entries(chatBox, c, IsTyping)[1].kids[1].text)

DotsFollowTicks ==
    \A c \in Started :
        TypingId(c) \in DOMAIN intervals =>
            LET k == intervals[TypingId(c)]
            IN  /\ Entries(chatBox, c, IsTyping) # <<>>
                /\ Dots(c) \in 0..3
                /\ k >= 1 => Dots(c) = (k - 1) % 4
                /\ k = 0 => Dots(c) = 0

StoppedStaysStopped ==
    \A c \in Started :
        TypingId(c) \notin DOMAIN intervals => TypingId(c) \notin DOMAIN intervals'

OnlyStartedByCall ==
    \A id \in {x \in DOMAIN intervals' : x.kind = "typing"} :
        id \notin DOMAIN intervals =>
            /\ Len(cycles') = Len(cycles) + 1
            /\ id.cyc = Len(cycles')
            /\ intervals'[id] = 0
            /\ Count(cycles'[id.cyc].effects, "addTypingIndicator") = 1

\* C19: a running typing indicator displays 0..3 dots, (k-1) mod 4 of them
\* after its k-th tick; once stopped it never ticks again, and a running
\* indicator only arises from a fresh addTypingIndicator call.
C19_DotsModuloFour ==
    /\ []DotsFollowTicks
    /\ [][StoppedStaysStopped /\ OnlyStartedByCall]_vars

\* C19 happens: an indicator has ticked five times and displays no dot again
C19_Witness ==
    \E c \in Started :
        /\ TypingId(c) \in DOMAIN intervals
        /\ intervals[TypingId(c)] = 5
        /\ Dots(c) = 0

====
